---- MODULE Spec2Model ----
(***************************************************************************)
(* Model of UUnrealObjectPooler (src/unreal/UnrealObjectPooler.{h,cpp}):   *)
(* a world subsystem that keeps per-class pools of inactive actors.        *)
(*                                                                         *)
(* Actors are identified by the order in which the host world created      *)
(* them: actor i is Actors[i]; the null pointer is NULL.  A destroyed      *)
(* actor keeps its identity (UPROPERTY references keep the object          *)
(* allocated), it only stops being valid.                                  *)
(***************************************************************************)
EXTENDS Integers, Sequences, FiniteSets, TLC

\* ---------------------------------------------------------------- bounds
\* Total number of actors (pooled, foreign and root actors) the world creates.
MaxActors == 5
\* Largest Count passed to InitializePool; the other values are -1, 0 and 1.
MaxCount == 2
\* Number of actors spawned by other code than the pooler.
MaxForeign == 1
\* Number of steps (calls of the pooler and steps of the host) in a run.
MaxSteps == 5

\* ------------------------------------------------------------- constants
NULL == 0

\* Actor classes handed to the pooler; NoClass is the null TSubclassOf.
Classes == {"ClassA", "ClassB"}
NoClass == "None"
\* AActor::StaticClass(), the class of the root (folder) actors.
RootClass == "AActor"
\* The class of the actors other code spawns without the pooler.
ForeignClass == "Foreign"

EPoolType == {"Nodes", "NodesSpawner", "GameObjects", "Billboards"}

\* Placements (location, rotation) callers ask for; InitializePool uses Zero.
ZeroPlacement == [Location |-> 0, Rotation |-> 0]
Placements == {[Location |-> 1, Rotation |-> 2]}

\* The categories callers pass in the runs explored.
PoolTypeInputs == {"Nodes", "GameObjects"}

\* The default category argument of SpawnObject and InitializePool.
DefaultPoolType == "GameObjects"

\* Number of components an actor of a class carries (Actor->GetComponents).
NumComponents(cls) == IF cls = "ClassA" THEN 2 ELSE IF cls = "ClassB" THEN 1 ELSE 0

VARIABLES
    ObjectPools,      \* TMap<UClass*, FActorPool>: class -> InactiveActors
    ActorToClassMap,  \* TMap<AActor*, UClass*>
    PoolRoots,        \* TMap<EPoolType, AActor*>
    MainPoolRoot,     \* AActor*
    Actors,           \* the host world: every actor ever created, by identity
    last,             \* the call that produced this state, with its result
    relSet,           \* per class: active instances released since the last acquire of the class
    lastRel,          \* per class: the instance of the latest release since the last acquire, if it was active
    steps             \* number of steps taken so far

vars == <<ObjectPools, ActorToClassMap, PoolRoots, MainPoolRoot, Actors,
          last, relSet, lastRel, steps>>

\* ------------------------------------------------------------ host world
\* IsValid(Actor): non-null and not destroyed.
IsValid(actors, a) == a # NULL /\ a \in DOMAIN actors /\ actors[a].valid

\* World->SpawnActor: a new actor is visible, collides, ticks; its first
\* component auto-activates, the others do not.
NewActor(cls, place) ==
    [valid |-> TRUE, cls |-> cls, hidden |-> FALSE, collision |-> TRUE,
     tick |-> TRUE, comps |-> [i \in 1..NumComponents(cls) |-> i = 1],
     place |-> place, parent |-> NULL]

\* Actor->Destroy(): the actor becomes invalid and leaves the attachment
\* hierarchy (its children are detached, not destroyed).
HostDestroy(actors, a) ==
    [i \in DOMAIN actors |->
        IF i = a THEN [actors[i] EXCEPT !.valid = FALSE, !.parent = NULL]
        ELSE IF actors[i].parent = a THEN [actors[i] EXCEPT !.parent = NULL]
        ELSE actors[i]]

\* ------------------------------------------------------------ containers
\* TMap::FindOrAdd on ObjectPools: a missing key gets an empty FActorPool.
FindOrAdd(map, k) == IF k \in DOMAIN map THEN map ELSE map @@ (k :> <<>>)

\* TMap::Add: inserts or replaces.
MapAdd(map, k, v) == [x \in DOMAIN map \cup {k} |-> IF x = k THEN v ELSE map[x]]

Range(seq) == {seq[i] : i \in DOMAIN seq}

\* Mutant of AddUnique: TArray::Add, a blind append.
AddBlind(list, x) == Append(list, x)

\* Mutant of AddUnique: an element already present is moved to the end.
AddUniqueToTop(list, x) == Append(SelectSeq(list, LAMBDA y : y # x), x)

\* TArray::AddUnique: appends unless already present.
AddUnique(list, x) == IF x \in Range(list) THEN list ELSE Append(list, x)

\* The pooler's members as one record, threaded through the handlers.
State == [ObjectPools |-> ObjectPools, ActorToClassMap |-> ActorToClassMap,
          PoolRoots |-> PoolRoots, MainPoolRoot |-> MainPoolRoot,
          Actors |-> Actors]

Result(s, ret) == [s |-> s, ret |-> ret]

\* --------------------------------------------------------- SetActorActive
\* Mutant of SetActorActive: the loop over the components is left out.
SetActorActiveNoComponents(actors, a, bActive) ==
    IF ~IsValid(actors, a) THEN actors
    ELSE [actors EXCEPT ![a] =
            [@ EXCEPT !.hidden = ~bActive, !.collision = bActive, !.tick = bActive]]

SetActorActive(actors, a, bActive) ==
    IF ~IsValid(actors, a) THEN actors
    ELSE [actors EXCEPT ![a] =
            [@ EXCEPT !.hidden = ~bActive, !.collision = bActive,
                      !.tick = bActive,
                      !.comps = [i \in DOMAIN @ |-> bActive]]]

\* ---------------------------------------------------- GetOrCreatePoolRoot
GetOrCreatePoolRoot(s, PoolType, world) ==
    IF ~world THEN Result(s, NULL)
    ELSE
      LET s1 == IF ~IsValid(s.Actors, s.MainPoolRoot)
                THEN [s EXCEPT !.Actors = Append(@, NewActor(RootClass, ZeroPlacement)),
                               !.MainPoolRoot = Len(s.Actors) + 1]
                ELSE s
      IN IF PoolType \in DOMAIN s1.PoolRoots /\ IsValid(s1.Actors, s1.PoolRoots[PoolType])
         THEN Result(s1, s1.PoolRoots[PoolType])
         ELSE
           LET NewRoot == Len(s1.Actors) + 1
               root == [NewActor(RootClass, ZeroPlacement) EXCEPT !.parent = s1.MainPoolRoot]
           IN Result([s1 EXCEPT !.Actors = Append(@, root),
                                !.PoolRoots = MapAdd(@, PoolType, NewRoot)],
                     NewRoot)

\* ------------------------------------------------------------ SpawnObject
\* Mutant of PopValid: the free list is used as a queue, oldest entry first.
RECURSIVE PopValidFront(_, _)
PopValidFront(list, actors) ==
    IF Len(list) = 0 THEN [list |-> list, actor |-> NULL]
    ELSE IF IsValid(actors, Head(list)) THEN [list |-> Tail(list), actor |-> Head(list)]
         ELSE PopValidFront(Tail(list), actors)

\* Mutant of PopValid: the popped actor is used without the IsValid check.
PopAny(list, actors) ==
    IF Len(list) = 0 THEN [list |-> list, actor |-> NULL]
    ELSE [list |-> SubSeq(list, 1, Len(list) - 1), actor |-> list[Len(list)]]

\* Mutant of PopValid: once a valid actor is found the entries below it are
\* dropped as well.
RECURSIVE PopValidClear(_, _)
PopValidClear(list, actors) ==
    IF Len(list) = 0 THEN [list |-> list, actor |-> NULL]
    ELSE LET top == list[Len(list)]
             rest == SubSeq(list, 1, Len(list) - 1)
         IN IF IsValid(actors, top) THEN [list |-> <<>>, actor |-> top]
            ELSE PopValidClear(rest, actors)

\* The while loop over Pool.InactiveActors: pop from the back until a valid
\* actor is found; invalid ones are dropped.
RECURSIVE PopValid(_, _)
PopValid(list, actors) ==
    IF Len(list) = 0 THEN [list |-> list, actor |-> NULL]
    ELSE LET top == list[Len(list)]
             rest == SubSeq(list, 1, Len(list) - 1)
         IN IF IsValid(actors, top) THEN [list |-> rest, actor |-> top]
            ELSE PopValid(rest, actors)

\* The tail of SpawnObject: place the actor and activate it.
PlaceAndActivate(s, a, place) ==
    IF a = NULL THEN Result(s, NULL)
    ELSE Result([s EXCEPT !.Actors =
                    SetActorActive([@ EXCEPT ![a].place = place], a, TRUE)], a)

\* The "create new actor" branch once the host has spawned the actor.
RecordAndAttach(s, ActorClass, place, PoolType, world) ==
    LET id == Len(s.Actors) + 1
        s2 == [s EXCEPT !.Actors = Append(@, NewActor(ActorClass, place)),
                        !.ActorToClassMap = MapAdd(@, id, ActorClass)]
        r  == GetOrCreatePoolRoot(s2, PoolType, world)
    IN Result([r.s EXCEPT !.Actors[id].parent = r.ret], id)

\* Mutant of SpawnObject: the pool is looked up and searched before the class
\* and the world are checked.
SpawnObjectLateChecks(s, ActorClass, place, PoolType, world, spawnOk) ==
    LET pools == FindOrAdd(s.ObjectPools, ActorClass)
        pop   == PopValid(pools[ActorClass], s.Actors)
        s1    == [s EXCEPT !.ObjectPools = [pools EXCEPT ![ActorClass] = pop.list]]
    IN IF ActorClass = NoClass \/ ~world THEN Result(s1, NULL)
       ELSE IF pop.actor # NULL THEN PlaceAndActivate(s1, pop.actor, place)
       ELSE IF ~spawnOk THEN Result(s1, NULL)
       ELSE LET r == RecordAndAttach(s1, ActorClass, place, PoolType, world)
            IN PlaceAndActivate(r.s, r.ret, place)

\* Mutant of SpawnObject: the pool root is fetched before the host is asked
\* for the new actor.
SpawnObjectEagerRoot(s, ActorClass, place, PoolType, world, spawnOk) ==
    IF ActorClass = NoClass THEN Result(s, NULL)
    ELSE IF ~world THEN Result(s, NULL)
    ELSE
      LET pools == FindOrAdd(s.ObjectPools, ActorClass)
          pop   == PopValid(pools[ActorClass], s.Actors)
          s1    == [s EXCEPT !.ObjectPools = [pools EXCEPT ![ActorClass] = pop.list]]
      IN IF pop.actor # NULL THEN PlaceAndActivate(s1, pop.actor, place)
         ELSE LET g  == GetOrCreatePoolRoot(s1, PoolType, world)
                  id == Len(g.s.Actors) + 1
              IN IF ~spawnOk THEN Result(g.s, NULL)
                 ELSE PlaceAndActivate(
                        [g.s EXCEPT !.Actors = Append(@, [NewActor(ActorClass, place)
                                                            EXCEPT !.parent = g.ret]),
                                    !.ActorToClassMap = MapAdd(@, id, ActorClass)],
                        id, place)

\* Mutant of SpawnObject: a reused actor is attached to the pool root of the
\* category asked for, as a new one is.
SpawnObjectReattach(s, ActorClass, place, PoolType, world, spawnOk) ==
    IF ActorClass = NoClass THEN Result(s, NULL)
    ELSE IF ~world THEN Result(s, NULL)
    ELSE
      LET pools == FindOrAdd(s.ObjectPools, ActorClass)
          pop   == PopValid(pools[ActorClass], s.Actors)
          s1    == [s EXCEPT !.ObjectPools = [pools EXCEPT ![ActorClass] = pop.list]]
      IN IF pop.actor # NULL
         THEN LET g == GetOrCreatePoolRoot(s1, PoolType, world)
              IN PlaceAndActivate([g.s EXCEPT !.Actors[pop.actor].parent = g.ret],
                                  pop.actor, place)
         ELSE IF ~spawnOk THEN Result(s1, NULL)
         ELSE LET r == RecordAndAttach(s1, ActorClass, place, PoolType, world)
              IN PlaceAndActivate(r.s, r.ret, place)

\* world: GetWorld() is non-null; spawnOk: World->SpawnActor returns an actor.
SpawnObject(s, ActorClass, place, PoolType, world, spawnOk) ==
    IF ActorClass = NoClass THEN Result(s, NULL)
    ELSE IF ~world THEN Result(s, NULL)
    ELSE
      LET pools == FindOrAdd(s.ObjectPools, ActorClass)
          pop   == PopValid(pools[ActorClass], s.Actors)
          s1    == [s EXCEPT !.ObjectPools = [pools EXCEPT ![ActorClass] = pop.list]]
      IN IF pop.actor # NULL THEN PlaceAndActivate(s1, pop.actor, place)
         ELSE IF ~spawnOk THEN Result(s1, NULL)
         ELSE LET r == RecordAndAttach(s1, ActorClass, place, PoolType, world)
              IN PlaceAndActivate(r.s, r.ret, place)

\* ----------------------------------------------------- ReturnObjectToPool
\* Mutant of ReturnManaged: the actor goes to whichever pool comes first,
\* not to the pool of its recorded class.
ReturnManagedAnyPool(s, Actor) ==
    LET pools == FindOrAdd(s.ObjectPools, s.ActorToClassMap[Actor])
        cls   == CHOOSE k \in DOMAIN pools : TRUE
    IN [s EXCEPT !.Actors = SetActorActive(@, Actor, FALSE),
                 !.ObjectPools = [pools EXCEPT ![cls] = AddUnique(@, Actor)]]

\* Mutant of ReturnManaged: the record of the actor is removed from
\* ActorToClassMap when the actor goes back to its pool.
ReturnManagedForget(s, Actor) ==
    LET cls   == s.ActorToClassMap[Actor]
        pools == FindOrAdd(s.ObjectPools, cls)
    IN [s EXCEPT !.Actors = SetActorActive(@, Actor, FALSE),
                 !.ObjectPools = [pools EXCEPT ![cls] = AddUnique(@, Actor)],
                 !.ActorToClassMap = [x \in DOMAIN @ \ {Actor} |-> @[x]]]

\* Mutant of ReturnManaged: the actor is pooled without being deactivated.
ReturnManagedStayActive(s, Actor) ==
    LET cls   == s.ActorToClassMap[Actor]
        pools == FindOrAdd(s.ObjectPools, cls)
    IN [s EXCEPT !.ObjectPools = [pools EXCEPT ![cls] = AddUnique(@, Actor)]]

\* The branch for an actor found in ActorToClassMap.
ReturnManaged(s, Actor) ==
    LET cls   == s.ActorToClassMap[Actor]
        pools == FindOrAdd(s.ObjectPools, cls)
    IN [s EXCEPT !.Actors = SetActorActive(@, Actor, FALSE),
                 !.ObjectPools = [pools EXCEPT ![cls] = AddUnique(@, Actor)]]

\* Mutant of ReturnForeign: the warning is logged and the actor is left alone.
ReturnForeignLeave(s, Actor) == s

\* The branch for an actor that is not pooled: warning, then Destroy().
ReturnForeign(s, Actor) == [s EXCEPT !.Actors = HostDestroy(@, Actor)]

ReturnObjectToPool(s, Actor) ==
    IF ~IsValid(s.Actors, Actor) THEN s
    ELSE IF Actor \in DOMAIN s.ActorToClassMap /\ s.ActorToClassMap[Actor] # NoClass
         THEN ReturnManaged(s, Actor)
         ELSE ReturnForeign(s, Actor)

\* --------------------------------------------------------- InitializePool
\* Mutant of InitializeStep: the actor SpawnObject returned is not handed to
\* ReturnObjectToPool.
InitializeStepNoReturn(s, ActorClass, PoolType, world, spawnOk) ==
    SpawnObject(s, ActorClass, ZeroPlacement, PoolType, world, spawnOk).s

\* One iteration of the for loop: SpawnObject at the zero placement, then
\* ReturnObjectToPool if it returned an actor.
InitializeStep(s, ActorClass, PoolType, world, spawnOk) ==
    LET r == SpawnObject(s, ActorClass, ZeroPlacement, PoolType, world, spawnOk)
    IN IF r.ret # NULL THEN ReturnObjectToPool(r.s, r.ret) ELSE r.s

\* oks[i]: whether the host spawns an actor when iteration i asks for one.
RECURSIVE InitializeLoop(_, _, _, _, _, _, _)
InitializeLoop(s, ActorClass, i, Count, PoolType, world, oks) ==
    IF i > Count THEN s
    ELSE InitializeLoop(InitializeStep(s, ActorClass, PoolType, world, oks[i]),
                        ActorClass, i + 1, Count, PoolType, world, oks)

\* Mutant of InitializePool: the pool of the class is looked up (and added)
\* before the loop.
InitializePoolEagerEntry(s, ActorClass, Count, PoolType, world, oks) ==
    IF ActorClass = NoClass THEN s
    ELSE InitializeLoop([s EXCEPT !.ObjectPools = FindOrAdd(@, ActorClass)],
                        ActorClass, 1, Count, PoolType, world, oks)

InitializePool(s, ActorClass, Count, PoolType, world, oks) ==
    IF ActorClass = NoClass THEN s
    ELSE InitializeLoop(s, ActorClass, 1, Count, PoolType, world, oks)

\* ----------------------------------------------------------- Deinitialize
\* Mutant of PooledValid: every valid actor recorded in ActorToClassMap.
OwnedValid(s) ==
    {a \in DOMAIN s.Actors : s.Actors[a].valid /\ a \in DOMAIN s.ActorToClassMap}

\* The valid actors held in any pool.
PooledValid(s) ==
    {a \in DOMAIN s.Actors :
        /\ s.Actors[a].valid
        /\ \E c \in DOMAIN s.ObjectPools : a \in Range(s.ObjectPools[c])}

RECURSIVE DestroyAll(_, _)
DestroyAll(actors, D) ==
    IF D = {} THEN actors
    ELSE LET a == CHOOSE x \in D : TRUE
         IN DestroyAll(HostDestroy(actors, a), D \ {a})

\* if (IsValid(MainPoolRoot)) { MainPoolRoot->Destroy(); MainPoolRoot = nullptr; }
DestroyMainRoot(s) ==
    IF IsValid(s.Actors, s.MainPoolRoot)
    THEN [s EXCEPT !.Actors = HostDestroy(@, s.MainPoolRoot), !.MainPoolRoot = NULL]
    ELSE s

Deinitialize(s) ==
    DestroyMainRoot([s EXCEPT !.Actors = DestroyAll(@, PooledValid(s)),
                              !.ObjectPools = <<>>,
                              !.ActorToClassMap = <<>>,
                              !.PoolRoots = <<>>])

\* ============================================================== behaviour
\* last: the call that produced the state and how it ended.
\*   why = "nullType"  the class argument was null
\*         "noWorld"   GetWorld() returned null
\*         "noCount"   InitializePool was given a Count <= 0
\*         "refused"   the host was asked for a new actor and spawned none
\*         "invalid"   ReturnObjectToPool was given a null or destroyed actor
\*         "done"      otherwise
\* cls, count, actor, ret and place are recorded for the calls that ended
\* "done" (cls also for "refused"); the other calls differ only in why.
\*   rel    acquire: the instance lastRel held for the class when it was called
\*   stale  acquire: the top of the class's free list was an invalid handle
\*   reused acquire: the free list held a valid instance, which was returned
\*   again  release: the call before was a release of the same valid actor
NoCall == [op |-> "none", why |-> "done", cls |-> NoClass, actor |-> NULL,
           ret |-> NULL, count |-> 0, place |-> ZeroPlacement,
           rel |-> NULL, stale |-> FALSE, reused |-> FALSE, again |-> FALSE]

EmptyMap == <<>>

Init ==
    /\ ObjectPools = EmptyMap
    /\ ActorToClassMap = EmptyMap
    /\ PoolRoots = EmptyMap
    /\ MainPoolRoot = NULL
    /\ Actors = <<>>
    /\ last = NoCall
    /\ relSet = [c \in Classes |-> {}]
    /\ lastRel = [c \in Classes |-> NULL]
    /\ steps = 0

Install(s) ==
    /\ ObjectPools' = s.ObjectPools
    /\ ActorToClassMap' = s.ActorToClassMap
    /\ PoolRoots' = s.PoolRoots
    /\ MainPoolRoot' = s.MainPoolRoot
    /\ Actors' = s.Actors

\* An acquire call for class c forgets the releases recorded for c.
ForgetReleases(c) ==
    /\ relSet' = [x \in Classes |-> IF x = c THEN {} ELSE relSet[x]]
    /\ lastRel' = [x \in Classes |-> IF x = c THEN NULL ELSE lastRel[x]]

\* Whether class c's pool holds a valid instance (a missing pool holds none).
HasValidPooled(c) ==
    c \in DOMAIN ObjectPools /\ \E i \in DOMAIN ObjectPools[c] : IsValid(Actors, ObjectPools[c][i])

\* Whether the top of class c's free list is an invalid handle.
HasStaleTop(c) ==
    /\ c \in DOMAIN ObjectPools
    /\ Len(ObjectPools[c]) > 0
    /\ ~IsValid(Actors, ObjectPools[c][Len(ObjectPools[c])])

\* The values of the arguments a call never reads do not change its effect, so
\* one value stands for all of them: the handler returns before reading the
\* world with a null class, before reading anything else without a world, and
\* reads neither the category nor the host's answer when it reuses an instance
\* or when the host spawns nothing.
ReadsArguments(c, t, w, ok) ==
    /\ c = NoClass => w
    /\ (c = NoClass \/ ~w) => (t = DefaultPoolType /\ ok)
    /\ (c # NoClass /\ HasValidPooled(c)) => (t = DefaultPoolType /\ ok)
    /\ ~ok => t = DefaultPoolType

\* Every step of a run is counted, and a run takes at most MaxSteps of them.
Advance ==
    /\ steps < MaxSteps
    /\ steps' = steps + 1

\* How a SpawnObject call on the current state ends.
SpawnEnds(c, w, ok) ==
    IF c = NoClass THEN "nullType"
    ELSE IF ~w THEN "noWorld"
    ELSE IF ~HasValidPooled(c) /\ ~ok THEN "refused"
    ELSE "done"

\* acquire: SpawnObject(ActorClass, Location, Rotation, PoolType)
Acquire ==
    \E c \in Classes \cup {NoClass}, p \in Placements, t \in PoolTypeInputs,
       w \in BOOLEAN, ok \in BOOLEAN :
        /\ Advance
        /\ ReadsArguments(c, t, w, ok)
        /\ LET r == SpawnObject(State, c, p, t, w, ok)
               why == SpawnEnds(c, w, ok)
           IN /\ Len(r.s.Actors) <= MaxActors
              /\ Install(r.s)
              /\ last' = [NoCall EXCEPT
                            !.op = "acquire", !.why = why, !.ret = r.ret,
                            !.cls = IF why \in {"done", "refused"} THEN c ELSE NoClass,
                            !.place = IF why = "done" THEN p ELSE ZeroPlacement,
                            !.rel = IF why = "done" THEN lastRel[c] ELSE NULL,
                            !.stale = why \in {"done", "refused"} /\ HasStaleTop(c),
                            !.reused = why = "done" /\ HasValidPooled(c)]
        /\ IF c \in Classes THEN ForgetReleases(c) ELSE UNCHANGED <<relSet, lastRel>>

\* release: ReturnObjectToPool(Actor), for any pointer a caller may hold.
Release ==
    \E a \in 0..Len(Actors) :
        LET s == ReturnObjectToPool(State, a)
            valid == IsValid(Actors, a)
            managed == valid /\ a \in DOMAIN ActorToClassMap
            c == ActorToClassMap[a]
            wasActive == ~(c \in DOMAIN ObjectPools /\ a \in Range(ObjectPools[c]))
        IN /\ Advance
           /\ Install(s)
           /\ last' = [NoCall EXCEPT !.op = "release",
                                     !.why = IF valid THEN "done" ELSE "invalid",
                                     !.actor = IF valid THEN a ELSE NULL,
                                     !.again = valid /\ last.op = "release" /\ last.actor = a]
           /\ IF managed
              THEN /\ relSet' = [relSet EXCEPT ![c] = IF wasActive THEN @ \cup {a} ELSE @]
                   /\ lastRel' = [lastRel EXCEPT ![c] =
                                    IF wasActive THEN a ELSE IF @ = a THEN a ELSE NULL]
              ELSE UNCHANGED <<relSet, lastRel>>

\* prewarm: InitializePool(ActorClass, Count, PoolType); oks[i] is the host's
\* answer if iteration i asks it for a new actor.  As in ReadsArguments, one
\* value stands for every value of an input the call never reads: Count with
\* a null class, the host's answers once an iteration has pooled an actor
\* (the later iterations reuse it), and the category when the host spawns
\* nothing.
Prewarm ==
    \E c \in Classes \cup {NoClass}, n \in {-1, 0, 1, MaxCount}, t \in PoolTypeInputs, w \in BOOLEAN :
      \E oks \in [1..n -> BOOLEAN] :
        /\ Advance
        /\ c = NoClass => n = MaxCount
        /\ (c = NoClass \/ n <= 0) => (w /\ t = DefaultPoolType)
        /\ \A i, j \in 1..n : (i < j /\ oks[i]) => oks[j]
        /\ (\A i \in 1..n : ~oks[i]) => t = DefaultPoolType
        /\ (c = NoClass \/ ~w \/ HasValidPooled(c)) =>
                (t = DefaultPoolType /\ \A i \in 1..n : oks[i])
        /\ LET s == InitializePool(State, c, n, t, w, oks)
               why == IF c = NoClass THEN "nullType"
                      ELSE IF n <= 0 THEN "noCount"
                      ELSE IF ~w THEN "noWorld"
                      ELSE IF ~HasValidPooled(c) /\ \E i \in 1..n : ~oks[i] THEN "refused"
                      ELSE "done"
           IN /\ Len(s.Actors) <= MaxActors
              /\ Install(s)
              /\ last' = [NoCall EXCEPT
                            !.op = "prewarm", !.why = why,
                            !.cls = IF why \in {"done", "refused"} THEN c ELSE NoClass,
                            !.count = IF why = "done" THEN n ELSE 0]
        /\ IF c \in Classes /\ n > 0 THEN ForgetReleases(c)
           ELSE UNCHANGED <<relSet, lastRel>>

\* teardown: Deinitialize()
Teardown ==
    /\ Advance
    /\ Install(Deinitialize(State))
    /\ last' = [NoCall EXCEPT !.op = "teardown"]
    /\ UNCHANGED <<relSet, lastRel>>

\* The host destroys an actor behind the pooler's back.
ExternalDestroy ==
    \E a \in DOMAIN Actors :
        /\ Advance
        /\ Actors[a].valid
        /\ Actors' = HostDestroy(Actors, a)
        /\ last' = [NoCall EXCEPT !.op = "extDestroy"]
        /\ UNCHANGED <<ObjectPools, ActorToClassMap, PoolRoots, MainPoolRoot,
                       relSet, lastRel>>

\* Some other code spawns an actor the pooler never sees.
ExternalSpawn ==
    /\ Advance
    /\ Len(Actors) < MaxActors
    /\ Cardinality({a \in DOMAIN Actors : Actors[a].cls = ForeignClass}) < MaxForeign
    /\ Actors' = Append(Actors, NewActor(ForeignClass, ZeroPlacement))
    /\ last' = [NoCall EXCEPT !.op = "extSpawn"]
    /\ UNCHANGED <<ObjectPools, ActorToClassMap, PoolRoots, MainPoolRoot,
                   relSet, lastRel>>

Next == Acquire \/ Release \/ Prewarm \/ Teardown \/ ExternalDestroy \/ ExternalSpawn

Spec == Init /\ [][Next]_vars

\* ================================================================= claims
Active(a) == ~a.hidden /\ a.collision /\ a.tick /\ \A i \in DOMAIN a.comps : a.comps[i]
Inactive(a) == a.hidden /\ ~a.collision /\ ~a.tick /\ \A i \in DOMAIN a.comps : ~a.comps[i]

\* The pools that hold actor a.
PoolsOf(pools, a) == {c \in DOMAIN pools : a \in Range(pools[c])}

\* Number of entries of list equal to a.
Occurrences(list, a) == Cardinality({i \in DOMAIN list : list[i] = a})

\* C1 as stated: an acquire of class T that gets past the world check returns
\* every still valid instance of T that was released while active since the
\* last acquire of T, and creates no actor.  Two such instances refute it.
C1_Reuse_AsStated ==
    [][(last'.op = "acquire" /\ last'.why = "done") =>
         \A x \in relSet[last'.cls] :
            IsValid(Actors, x) => (last'.ret = x /\ Len(Actors') = Len(Actors))]_vars

\* C1 amended: if x was acquired for T and released, and since that release
\* there was no acquire of T and no release of another instance of T, and x
\* is still valid, then the next acquire of T returns x and creates no actor.
C1_Reuse ==
    [][(last'.op = "acquire" /\ last'.why = "done"
          /\ lastRel[last'.cls] # NULL /\ IsValid(Actors, lastRel[last'.cls])) =>
         (last'.ret = lastRel[last'.cls] /\ Len(Actors') = Len(Actors))]_vars

\* An acquire returned the instance released last while the pool of its
\* class still holds another valid instance.
C1_Witness ==
    /\ last.op = "acquire" /\ last.why = "done"
    /\ last.rel # NULL /\ last.ret = last.rel
    /\ \E y \in Range(ObjectPools[last.cls]) : IsValid(Actors, y)

\* C2 as stated: InitializePool(T, n) with n > 0, a world and a host that
\* spawns every actor asked for, called when T's pool is empty or missing,
\* leaves exactly n distinct valid inactive instances in T's pool and no
\* actor it created active.
C2_Prewarm_AsStated ==
    [][(last'.op = "prewarm" /\ last'.why = "done" /\ last'.count > 0
          /\ (last'.cls \in DOMAIN ObjectPools => ObjectPools[last'.cls] = <<>>)) =>
         LET pool == ObjectPools'[last'.cls]
         IN /\ Len(pool) = last'.count
            /\ \A i, j \in DOMAIN pool : i # j => pool[i] # pool[j]
            /\ \A i \in DOMAIN pool : IsValid(Actors', pool[i]) /\ Inactive(Actors'[pool[i]])
            /\ \A a \in DOMAIN Actors' \ DOMAIN Actors :
                  Actors'[a].cls \in Classes => Inactive(Actors'[a])]_vars

\* C3: no free list holds an actor twice, and after a release of a valid
\* managed actor its pool holds it exactly once.
C3_NoDuplication ==
    /\ \A c \in DOMAIN ObjectPools :
          \A i, j \in DOMAIN ObjectPools[c] : i # j => ObjectPools[c][i] # ObjectPools[c][j]
    /\ (last.op = "release" /\ last.why = "done" /\ last.actor \in DOMAIN ActorToClassMap) =>
          /\ ActorToClassMap[last.actor] \in DOMAIN ObjectPools
          /\ Occurrences(ObjectPools[ActorToClassMap[last.actor]], last.actor) = 1

\* release(x) was called twice in succession on a valid managed actor x, and
\* x is in its pool.
C3_Witness ==
    /\ last.op = "release" /\ last.again
    /\ last.actor \in DOMAIN ActorToClassMap
    /\ last.actor \in Range(ObjectPools[ActorToClassMap[last.actor]])

\* C4: every entry of the pool of class T is recorded in ActorToClassMap with
\* class T and is an actor that was constructed as a T, so no actor is in two
\* pools.
C4_TypeFidelity ==
    /\ \A c \in DOMAIN ObjectPools : \A a \in Range(ObjectPools[c]) :
          /\ a \in DOMAIN ActorToClassMap
          /\ ActorToClassMap[a] = c
          /\ Actors[a].cls = c
    /\ \A a \in DOMAIN Actors : Cardinality(PoolsOf(ObjectPools, a)) <= 1

\* The pools of two classes both hold an instance.
C4_Witness ==
    \E c, d \in DOMAIN ObjectPools :
        c # d /\ ObjectPools[c] # <<>> /\ ObjectPools[d] # <<>>

\* C5: whatever was destroyed behind the pooler's back, an acquire returns
\* null, or a valid actor that was in the pool of the class asked for and
\* recorded with that class, or an actor created by this call.
C5_StaleSkip ==
    [][last'.op = "acquire" =>
         \/ last'.ret = NULL
         \/ /\ IsValid(Actors', last'.ret)
            /\ \/ /\ last'.cls \in DOMAIN ObjectPools
                  /\ last'.ret \in Range(ObjectPools[last'.cls])
                  /\ IsValid(Actors, last'.ret)
                  /\ ActorToClassMap[last'.ret] = last'.cls
               \/ /\ last'.ret \notin DOMAIN Actors
                  /\ Actors'[last'.ret].cls = last'.cls]_vars

\* An acquire found an invalid handle on top of the free list and returned an
\* actor.
C5_Witness ==
    last.op = "acquire" /\ last.why = "done" /\ last.stale /\ last.ret # NULL

\* C6: a release of a valid actor that ActorToClassMap does not hold destroys
\* the actor, leaves it in no pool and changes neither the pools nor
\* ActorToClassMap.
C6_ForeignRelease ==
    [][(last'.op = "release" /\ last'.why = "done"
          /\ last'.actor \notin DOMAIN ActorToClassMap) =>
         /\ ~Actors'[last'.actor].valid
         /\ PoolsOf(ObjectPools', last'.actor) = {}
         /\ ObjectPools' = ObjectPools
         /\ ActorToClassMap' = ActorToClassMap]_vars

\* An actor spawned by other code was released while a pool held an instance:
\* it is destroyed.
C6_Witness ==
    /\ last.op = "release" /\ last.why = "done"
    /\ Actors[last.actor].cls = ForeignClass
    /\ ~Actors[last.actor].valid
    /\ \E c \in DOMAIN ObjectPools : ObjectPools[c] # <<>>

\* C7 as stated: Deinitialize destroys every valid pooled actor, empties
\* ObjectPools, ActorToClassMap and PoolRoots and clears MainPoolRoot; the
\* acquire that follows returns an actor created by that call.
C7_Teardown_AsStated ==
    /\ [][last'.op = "teardown" =>
            /\ \A a \in PooledValid(State) : ~Actors'[a].valid
            /\ ObjectPools' = EmptyMap
            /\ ActorToClassMap' = EmptyMap
            /\ PoolRoots' = EmptyMap
            /\ MainPoolRoot' = NULL]_vars
    /\ [][(last.op = "teardown" /\ last'.op = "acquire" /\ last'.why = "done") =>
            last'.ret \notin DOMAIN Actors]_vars

\* C8 as stated: an acquire that finds no valid pooled instance and is
\* refused a new actor returns null and leaves ObjectPools, ActorToClassMap
\* and PoolRoots as they were.
C8_ConstructionFailure_AsStated ==
    [][(last'.op = "acquire" /\ last'.why = "refused") =>
         /\ last'.ret = NULL
         /\ ObjectPools' = ObjectPools
         /\ ActorToClassMap' = ActorToClassMap
         /\ PoolRoots' = PoolRoots]_vars

\* C8 amended: such an acquire returns null, leaves ActorToClassMap,
\* PoolRoots, MainPoolRoot and every actor as they were, and changes
\* ObjectPools only in the entry of the class asked for: the class has an
\* entry afterwards, its free list is empty, and every handle dropped from it
\* was invalid.
C8_ConstructionFailure ==
    [][(last'.op = "acquire" /\ last'.why = "refused") =>
         /\ last'.ret = NULL
         /\ ActorToClassMap' = ActorToClassMap
         /\ PoolRoots' = PoolRoots
         /\ MainPoolRoot' = MainPoolRoot
         /\ Actors' = Actors
         /\ DOMAIN ObjectPools' = DOMAIN ObjectPools \cup {last'.cls}
         /\ ObjectPools'[last'.cls] = <<>>
         /\ \A c \in DOMAIN ObjectPools :
               IF c = last'.cls
               THEN \A a \in Range(ObjectPools[c]) : ~IsValid(Actors, a)
               ELSE ObjectPools'[c] = ObjectPools[c]]_vars

\* A refused acquire dropped an invalid handle from the free list.
C8_Witness ==
    /\ last.op = "acquire" /\ last.why = "refused" /\ last.stale
    /\ ObjectPools[last.cls] = <<>>

\* C9: an acquire with a null class or without a world returns null and
\* changes no member of the pooler and no actor.
C9_InvalidTypeNoWorld ==
    [][(last'.op = "acquire" /\ last'.why \in {"nullType", "noWorld"}) =>
         /\ last'.ret = NULL
         /\ ObjectPools' = ObjectPools
         /\ ActorToClassMap' = ActorToClassMap
         /\ PoolRoots' = PoolRoots
         /\ MainPoolRoot' = MainPoolRoot
         /\ Actors' = Actors]_vars

\* An acquire was called without a world while the free list of a pool had
\* an invalid handle on top, which the call left there.
C9_Witness ==
    /\ last.op = "acquire" /\ last.why = "noWorld"
    /\ \E c \in DOMAIN ObjectPools : HasStaleTop(c)

\* C10: right after an acquire that returned an actor, the actor is visible,
\* collides, ticks, has every component active and is at the placement asked
\* for; right after a release of a valid managed actor, the actor is hidden,
\* does not collide, does not tick and has every component inactive.
C10_Activation ==
    /\ (last.op = "acquire" /\ last.ret # NULL) =>
          /\ Active(Actors[last.ret])
          /\ Actors[last.ret].place = last.place
          /\ last.place \in Placements
    /\ (last.op = "release" /\ last.why = "done"
          /\ last.actor \in DOMAIN ActorToClassMap) =>
          Inactive(Actors[last.actor])

\* An acquire returned the instance that a release had deactivated, an actor
\* with two components.
C10_Witness ==
    /\ last.op = "acquire" /\ last.rel # NULL /\ last.ret = last.rel
    /\ NumComponents(last.cls) = 2
    /\ Active(Actors[last.ret])

\* C11: an acquire, a prewarm and a release of an actor recorded in
\* ActorToClassMap destroy no actor; a release of a valid actor that is not
\* recorded destroys that actor only; an actor that was not active is active
\* after a step only if the step is an acquire that returned it; an actor
\* that was active is not active after a step only if the step is a release
\* of it.
C11_StateMachine ==
    [][
        /\ (\/ last'.op \in {"acquire", "prewarm"}
            \/ (last'.op = "release" /\ last'.actor \in DOMAIN ActorToClassMap)
            \/ (last'.op = "release" /\ last'.why = "invalid")) =>
              \A a \in DOMAIN Actors : Actors'[a].valid = Actors[a].valid
        /\ (last'.op = "release" /\ last'.why = "done"
               /\ last'.actor \notin DOMAIN ActorToClassMap) =>
              \A a \in DOMAIN Actors :
                 Actors'[a].valid = (Actors[a].valid /\ a # last'.actor)
        /\ \A b \in DOMAIN Actors' :
              (Active(Actors'[b]) /\ (b \in DOMAIN Actors => ~Active(Actors[b]))
                  /\ Actors'[b].cls \in Classes) =>
                (last'.op = "acquire" /\ last'.ret = b)
        /\ \A d \in DOMAIN Actors :
              (Active(Actors[d]) /\ ~Active(Actors'[d])) =>
                (last'.op = "release" /\ last'.actor = d
                   /\ d \in DOMAIN ActorToClassMap /\ Inactive(Actors'[d]))
      ]_vars

\* A prewarm left a valid inactive instance in the pool of its class while an
\* instance returned by an earlier acquire is valid and active.
C11_Witness ==
    /\ last.op = "prewarm" /\ last.why = "done"
    /\ \E a \in Range(ObjectPools[last.cls]) :
          IsValid(Actors, a) /\ Inactive(Actors[a])
    /\ \E b \in DOMAIN ActorToClassMap :
          IsValid(Actors, b) /\ Active(Actors[b]) /\ PoolsOf(ObjectPools, b) = {}

\* C12: an InitializePool call with a null class or with Count <= 0 changes
\* no member of the pooler and no actor: no pool entry, no actor, no record
\* in ActorToClassMap and no root is created.
C12_PrewarmNoOp ==
    [][(last'.op = "prewarm" /\ last'.why \in {"nullType", "noCount"}) =>
         /\ ObjectPools' = ObjectPools
         /\ ActorToClassMap' = ActorToClassMap
         /\ PoolRoots' = PoolRoots
         /\ MainPoolRoot' = MainPoolRoot
         /\ Actors' = Actors]_vars

\* InitializePool was called with Count <= 0 while a free list had an invalid
\* handle on top, which the call left there.
C12_Witness ==
    /\ last.op = "prewarm" /\ last.why = "noCount"
    /\ \E c \in DOMAIN ObjectPools : HasStaleTop(c)

\* The valid entry of class c's free list nearest to the top.
TopValid(c) ==
    LET list == ObjectPools[c]
        k == CHOOSE i \in DOMAIN list :
                /\ IsValid(Actors, list[i])
                /\ \A j \in DOMAIN list : j > i => ~IsValid(Actors, list[j])
    IN [index |-> k, actor |-> list[k]]

\* C13 as stated: an acquire of class T that directly follows a release of a
\* valid instance x recorded with class T returns x, whether or not x was
\* already in T's pool when it was released.
C13_StackOrder_AsStated ==
    [][(last.op = "release" /\ last.why = "done"
          /\ last.actor \in DOMAIN ActorToClassMap
          /\ last'.op = "acquire" /\ last'.why = "done"
          /\ last'.cls = ActorToClassMap[last.actor]) =>
         last'.ret = last.actor]_vars

\* C13 amended: the free list is a stack on insertion order.  A release of a
\* valid recorded actor that is not in the pool of its class appends it to
\* that free list and changes no other pool; a release of one that is already
\* in the pool leaves every free list as it was; an acquire that finds a
\* valid instance in the pool returns the valid entry nearest to the top.
C13_StackOrder ==
    [][
        /\ (last'.op = "release" /\ last'.why = "done"
               /\ last'.actor \in DOMAIN ActorToClassMap) =>
              LET c == ActorToClassMap[last'.actor]
                  old == IF c \in DOMAIN ObjectPools THEN ObjectPools[c] ELSE <<>>
              IN IF last'.actor \in Range(old)
                 THEN ObjectPools' = ObjectPools
                 ELSE /\ ObjectPools'[c] = Append(old, last'.actor)
                      /\ DOMAIN ObjectPools' = DOMAIN ObjectPools \cup {c}
                      /\ \A d \in DOMAIN ObjectPools \ {c} : ObjectPools'[d] = ObjectPools[d]
        /\ (last'.op = "acquire" /\ last'.why = "done" /\ HasValidPooled(last'.cls)) =>
              last'.ret = TopValid(last'.cls).actor
      ]_vars

\* A valid instance that lay in its pool below another valid instance was
\* released again: the other instance is still on top.
C13_Witness ==
    /\ last.op = "release" /\ last.why = "done"
    /\ last.actor \in DOMAIN ActorToClassMap
    /\ LET list == ObjectPools[ActorToClassMap[last.actor]]
       IN /\ last.actor \in Range(list)
          /\ list[Len(list)] # last.actor
          /\ IsValid(Actors, list[Len(list)])

\* C14 as stated: Deinitialize destroys MainPoolRoot and every root held in
\* PoolRoots that was valid when it was called.
C14_TeardownRoots_AsStated ==
    [][last'.op = "teardown" =>
         \A a \in Range(PoolRoots) \cup {MainPoolRoot} :
            IsValid(Actors, a) => ~Actors'[a].valid]_vars

\* C15 as stated: the root an acquire attaches a new actor to, which is what
\* GetOrCreatePoolRoot returned, is valid, is held in PoolRoots under some
\* category, is attached to MainPoolRoot, which is valid, and is the root
\* PoolRoots held for that category if that one was valid, else an actor
\* created by this call.
C15_RootsUnderMain_AsStated ==
    [][(last'.op = "acquire" /\ last'.why = "done" /\ ~last'.reused) =>
         LET root == Actors'[last'.ret].parent
         IN /\ IsValid(Actors', root)
            /\ IsValid(Actors', MainPoolRoot')
            /\ Actors'[root].parent = MainPoolRoot'
            /\ \E t \in DOMAIN PoolRoots' :
                  /\ PoolRoots'[t] = root
                  /\ IF t \in DOMAIN PoolRoots /\ IsValid(Actors, PoolRoots[t])
                     THEN root = PoolRoots[t]
                     ELSE root \notin DOMAIN Actors]_vars

\* C16: an acquire of class T that gets past the world check and finds a
\* valid instance in T's free list returns the valid entry nearest to the
\* top and leaves exactly the entries below it, in their order; every entry
\* above it was invalid.  If it finds no valid entry T's free list ends
\* empty.  The other free lists are unchanged, and no step puts an invalid
\* handle into a free list.
C16_TakeEffect ==
    [][
        /\ (last'.op = "acquire" /\ last'.why \in {"done", "refused"}) =>
              LET c == last'.cls
                  old == IF c \in DOMAIN ObjectPools THEN ObjectPools[c] ELSE <<>>
              IN /\ DOMAIN ObjectPools' = DOMAIN ObjectPools \cup {c}
                 /\ \A d \in DOMAIN ObjectPools \ {c} : ObjectPools'[d] = ObjectPools[d]
                 /\ IF HasValidPooled(c)
                    THEN LET tv == TopValid(c)
                         IN /\ last'.ret = tv.actor
                            /\ ObjectPools'[c] = SubSeq(old, 1, tv.index - 1)
                            /\ \A i \in (tv.index + 1)..Len(old) : ~IsValid(Actors, old[i])
                    ELSE ObjectPools'[c] = <<>>
        /\ \A c \in DOMAIN ObjectPools' : \A a \in Range(ObjectPools'[c]) :
              (c \notin DOMAIN ObjectPools \/ a \notin Range(ObjectPools[c])) =>
                 IsValid(Actors', a)
      ]_vars

\* An acquire dropped an invalid handle that lay on top of the free list and
\* returned the valid instance below it, which left the free list.
C16_Witness ==
    /\ last.op = "acquire" /\ last.reused /\ last.stale
    /\ last.ret \notin Range(ObjectPools[last.cls])
    /\ \E a \in DOMAIN ActorToClassMap :
          /\ ActorToClassMap[a] = last.cls
          /\ ~IsValid(Actors, a)
          /\ PoolsOf(ObjectPools, a) = {}

\* C17: a step other than Deinitialize removes no record from
\* ActorToClassMap and changes the class of none; it adds at most one record,
\* only in an acquire or a prewarm, for an actor created by that call, with
\* the class asked for, which is the class the actor was constructed as; an
\* acquire that creates an actor records the actor it returns.
C17_OwnershipPermanence ==
    [][last'.op # "teardown" =>
         LET new == DOMAIN ActorToClassMap' \ DOMAIN ActorToClassMap
         IN /\ \A a \in DOMAIN ActorToClassMap :
                  a \in DOMAIN ActorToClassMap' /\ ActorToClassMap'[a] = ActorToClassMap[a]
            /\ Cardinality(new) <= 1
            /\ \A a \in new :
                  /\ last'.op \in {"acquire", "prewarm"}
                  /\ a \notin DOMAIN Actors
                  /\ ActorToClassMap'[a] = last'.cls
                  /\ Actors'[a].cls = last'.cls
                  /\ last'.op = "acquire" => (a = last'.ret /\ ~last'.reused)
            /\ (last'.op = "acquire" /\ last'.why = "done" /\ ~last'.reused) =>
                  new = {last'.ret}]_vars

\* An acquire reused a pooled instance while ActorToClassMap still records
\* the instance it returns, under its class, and an instance that the host
\* has destroyed.
C17_Witness ==
    /\ last.op = "acquire" /\ last.reused
    /\ last.ret \in DOMAIN ActorToClassMap
    /\ ActorToClassMap[last.ret] = last.cls
    /\ \E a \in DOMAIN ActorToClassMap : ~IsValid(Actors, a)

\* C18: every valid actor in a free list is inactive, no active instance of
\* a pooled class is in a free list (by C11 the active instances are those an
\* acquire returned and no release took back), and the actor an acquire has
\* just returned is in no free list.
C18_PooledInactive ==
    /\ \A c \in DOMAIN ObjectPools : \A a \in Range(ObjectPools[c]) :
          IsValid(Actors, a) => Inactive(Actors[a])
    /\ \A a \in DOMAIN Actors :
          (Actors[a].cls \in Classes /\ Active(Actors[a])) => PoolsOf(ObjectPools, a) = {}
    /\ (last.op = "acquire" /\ last.ret # NULL) => PoolsOf(ObjectPools, last.ret) = {}

\* A free list holds a valid instance and a destroyed one while another
\* instance of the class is valid, active and in no free list.
C18_Witness ==
    \E c \in DOMAIN ObjectPools :
        /\ \E a \in Range(ObjectPools[c]) : IsValid(Actors, a) /\ Inactive(Actors[a])
        /\ \E a \in Range(ObjectPools[c]) : ~IsValid(Actors, a)
        /\ \E b \in DOMAIN ActorToClassMap :
              /\ ActorToClassMap[b] = c
              /\ IsValid(Actors, b) /\ Active(Actors[b])
              /\ PoolsOf(ObjectPools, b) = {}

\* C19: an acquire that reuses a pooled instance leaves the parent of that
\* instance, PoolRoots and MainPoolRoot as they were and creates no actor,
\* and SpawnObject returns the same instance and produces the same state
\* whatever category (and whatever answer of the host) it is given.
C19_CategoryOnlyAtCreation ==
    [][(last'.op = "acquire" /\ last'.reused) =>
         /\ Actors'[last'.ret].parent = Actors[last'.ret].parent
         /\ PoolRoots' = PoolRoots
         /\ MainPoolRoot' = MainPoolRoot
         /\ Len(Actors') = Len(Actors)
         /\ \A t \in EPoolType, ok \in BOOLEAN :
               LET r == SpawnObject(State, last'.cls, last'.place, t, TRUE, ok)
               IN /\ r.ret = last'.ret
                  /\ r.s = State']_vars

\* An acquire reused an instance that is attached to the root of one
\* category while PoolRoots holds no root for another category.
C19_Witness ==
    /\ last.op = "acquire" /\ last.reused
    /\ \E t \in DOMAIN PoolRoots :
          /\ Actors[last.ret].parent = PoolRoots[t]
          /\ IsValid(Actors, PoolRoots[t])
    /\ \E u \in PoolTypeInputs : u \notin DOMAIN PoolRoots

\* C20: Deinitialize leaves every valid instance that is in no free list
\* exactly as it was (not destroyed, not deactivated) and empties
\* ActorToClassMap; a release of a valid instance of a pooled class that
\* ActorToClassMap does not record destroys it, puts it in no free list and
\* leaves ObjectPools as it was.
C20_TeardownLeavesActive ==
    [][
        /\ last'.op = "teardown" =>
              /\ ActorToClassMap' = EmptyMap
              /\ \A a \in DOMAIN Actors :
                    (Actors[a].cls \in Classes /\ Actors[a].valid
                        /\ PoolsOf(ObjectPools, a) = {}) =>
                      Actors'[a] = Actors[a]
        /\ (last'.op = "release" /\ last'.why = "done"
               /\ Actors[last'.actor].cls \in Classes
               /\ last'.actor \notin DOMAIN ActorToClassMap) =>
              /\ ~Actors'[last'.actor].valid
              /\ PoolsOf(ObjectPools', last'.actor) = {}
              /\ ObjectPools' = ObjectPools
      ]_vars

\* An instance that was active when Deinitialize ran was released afterwards:
\* it is destroyed, still shows as active, and is in no free list.
C20_Witness ==
    /\ last.op = "release" /\ last.why = "done"
    /\ Actors[last.actor].cls \in Classes
    /\ last.actor \notin DOMAIN ActorToClassMap
    /\ ~Actors[last.actor].valid
    /\ Active(Actors[last.actor])
    /\ PoolsOf(ObjectPools, last.actor) = {}

====
